---------------------------- MODULE Spec2Model ----------------------------
(***************************************************************************)
(* Vas2NetsSmsTransport (vxvas2nets/vas2nets_sms.py): the inbound and the  *)
(* outbound pipeline of the Vas2Nets SMS transport as a state machine.     *)
(*                                                                         *)
(* Every invocation of handle_raw_inbound_message / handle_outbound_message*)
(* is a unit of work.  A unit runs from one "yield" to the next in one     *)
(* atomic step (Twisted: single-threaded, cooperative), so an action is    *)
(* the code between two suspension points.  What a unit does to its        *)
(* collaborators (treq, the bus, the status publisher, the HTTP server) is *)
(* recorded, in call order, in the unit's log.                             *)
(*                                                                         *)
(* Python values: None is None (the empty tuple) and a value v that may    *)
(* also be None is written Some(v) (the one-element tuple).  Text that the *)
(* code takes apart (the vendor's response body and what is derived from   *)
(* it) is a sequence of characters; the other strings are atoms.  A        *)
(* dict is a function from its keys.                                       *)
(***************************************************************************)
EXTENDS Naturals, Sequences, FiniteSets

VARIABLES config, outbound, inbound

vars == <<config, outbound, inbound>>

-----------------------------------------------------------------------------
(* Bounds *)

\* Number of unit-of-work slots of each pipeline.
MaxUnits == 2

OutUnits == 1..MaxUnits
InUnits == 1..MaxUnits

-----------------------------------------------------------------------------
(* Python values *)

None == <<>>
Some(v) == <<v>>
EmptyDict == [k \in {} |-> k]

\* dict.get(key): the value, or None for a key the dict does not hold.
dict_get(d, key) == IF key \in DOMAIN d THEN d[key] ELSE None

\* twisted.web.http status codes the code names.
OK == 200
BAD_REQUEST == 400

\* json.dumps(body): the serialised text of body.
json_dumps(body) == <<"json", body>>

-----------------------------------------------------------------------------
(* Text literals of the source, as character sequences *)

T_RequestTimeout == <<"R","e","q","u","e","s","t"," ","t","i","m","e","o","u","t">>
T_RequestSuccessful == <<"R","e","q","u","e","s","t"," ","s","u","c","c","e","s","s","f","u","l">>
T_BadRequestEncoding == <<"B","a","d"," ","r","e","q","u","e","s","t"," ","e","n","c","o","d","i","n","g">>
T_BadRequestFields == <<"B","a","d"," ","r","e","q","u","e","s","t"," ","f","i","e","l","d","s">>

-----------------------------------------------------------------------------
(* Class attributes *)

EXPECTED_FIELDS == {"sender", "receiver", "msgdata", "recvtime", "msgid", "operator"}

\* EXPECTED_MESSAGE_FIELDS without from_addr.
EXPECTED_MESSAGE_FIELDS_m == {"to_addr", "content"}

EXPECTED_MESSAGE_FIELDS == {"from_addr", "to_addr", "content"}

ErrCode(a, b) == <<"E","R","R","-",a,b>>

\* The dict SEND_FAIL_TYPES as its set of items (key, value).
SEND_FAIL_TYPES ==
    { <<ErrCode("1","1"), "missing_username">>,
      <<ErrCode("1","2"), "missing_password">>,
      <<ErrCode("1","3"), "missing_destination">>,
      <<ErrCode("1","4"), "missing_sender_id">>,
      <<ErrCode("1","5"), "missing_message">>,
      <<ErrCode("2","1"), "ender_id_too_long">>,
      <<ErrCode("3","3"), "invalid_login">>,
      <<ErrCode("4","1"), "insufficient_credit">>,
      <<ErrCode("7","0"), "invalid_destination_number">>,
      <<ErrCode("5","1"), "invalid_message_id">>,
      <<ErrCode("5","2"), "system_error">> }

transport_type == "sms"

-----------------------------------------------------------------------------
(* Pure methods *)

\* get_in without its test for None: .get is then called on None.
RECURSIVE get_in_m(_, _)
get_in_m(data, keys) ==
    IF keys = <<>> THEN [raised |-> FALSE, value |-> data]
    ELSE IF data = None THEN [raised |-> TRUE, value |-> None]
    ELSE get_in_m(dict_get(data[1], Head(keys)), Tail(keys))

\* get_in(data, *keys): data is Some(dict) or None.  Calling .get on None
\* raises AttributeError; the loop's "is None" test returns before it does.
RECURSIVE get_in(_, _)
get_in(data, keys) ==
    IF keys = <<>> THEN [raised |-> FALSE, value |-> data]
    ELSE IF data = None THEN [raised |-> TRUE, value |-> None]
    ELSE LET d == dict_get(data[1], Head(keys))
         IN  IF d = None THEN [raised |-> FALSE, value |-> None]
             ELSE get_in(d, Tail(keys))

\* get_send_params(message): the query parameters, or the lookup's exception.
get_send_params(message) ==
    LET params == [username |-> config.username,
                   password |-> config.password,
                   sender   |-> message.from_addr,
                   receiver |-> message.to_addr,
                   message  |-> message.content]
        id == get_in(Some(message), <<"transport_metadata", "vas2nets_sms", "msgid">>)
    IN  IF id.raised THEN [raised |-> TRUE, value |-> None]
        ELSE IF id.value # None
             THEN [raised |-> FALSE,
                   value  |-> [k \in DOMAIN params \cup {"message_id"} |->
                                 IF k = "message_id" THEN id.value[1] ELSE params[k]]]
             ELSE [raised |-> FALSE, value |-> params]

\* get_send_fail_type without the default: SEND_FAIL_TYPES.get(code), whose
\* result for a code the table lacks is None (written "None").
get_send_fail_type_m(code) ==
    IF code # None /\ \E item \in SEND_FAIL_TYPES : item[1] = code[1]
    THEN (CHOOSE item \in SEND_FAIL_TYPES : item[1] = code[1])[2]
    ELSE "None"

\* get_send_fail_type(code): SEND_FAIL_TYPES.get(code, 'request_fail_unknown');
\* code is Some(text) or None.
get_send_fail_type(code) ==
    IF code # None /\ \E item \in SEND_FAIL_TYPES : item[1] = code[1]
    THEN (CHOOSE item \in SEND_FAIL_TYPES : item[1] = code[1])[2]
    ELSE "request_fail_unknown"

Digits == {"0","1","2","3","4","5","6","7","8","9"}

\* The number of digits of s from position i on (the greedy \d+).
RECURSIVE DigitRun(_, _)
DigitRun(s, i) ==
    IF i <= Len(s) /\ s[i] \in Digits THEN 1 + DigitRun(s, i + 1) ELSE 0

\* ERROR_RE = ^(?P<code>ERR-\d+) (?P<message>.*)$ searched in content: the
\* match's groups, or None.  Without re.MULTILINE ^ is the start of the
\* text, . is any character but a newline and $ is the end of the text or
\* the place before a newline that ends it.
ERROR_RE_search(content) ==
    LET n    == DigitRun(content, 5)
        from == 6 + n
        rest == SubSeq(content, from, Len(content))
        nl   == {i \in 1..Len(rest) : rest[i] = "\n"}
    IN  IF /\ Len(content) >= 5 + n
           /\ SubSeq(content, 1, 4) = <<"E","R","R","-">>
           /\ n >= 1
           /\ content[5 + n] = " "
           /\ nl \subseteq {Len(rest)}
        THEN Some([code    |-> SubSeq(content, 1, 4 + n),
                   message |-> IF nl = {} THEN rest
                               ELSE SubSeq(rest, 1, Len(rest) - 1)])
        ELSE None

\* get_send_status giving an empty message for a body without a match.
get_send_status_m(content) ==
    LET match == ERROR_RE_search(content)
    IN  IF match = None
        THEN [code |-> None, message |-> <<>>]
        ELSE [code |-> Some(match[1].code), message |-> match[1].message]

\* get_send_status(content)
get_send_status(content) ==
    LET match == ERROR_RE_search(content)
    IN  IF match = None
        THEN [code |-> None, message |-> content]
        ELSE [code |-> Some(match[1].code), message |-> match[1].message]

-----------------------------------------------------------------------------
(* Collaborators outside this repository, at the interface the code uses *)

\* HttpRpcTransport.ensure_message_values(message, expected_fields): the
\* fields of the message that are absent or empty.
ensure_message_values(message, expected_fields) ==
    {f \in expected_fields : message[f] = None \/ message[f] = Some("")}

\* The calls a unit makes, as the entries of its log.
reject_message(message, missing_fields) ==
    [call |-> "reject_message", message |-> message, missing_fields |-> missing_fields]

publish_nack(user_message_id, sent_message_id, reason) ==
    [call |-> "publish_nack", user_message_id |-> user_message_id,
     sent_message_id |-> sent_message_id, reason |-> reason]

publish_ack(user_message_id, sent_message_id) ==
    [call |-> "publish_ack", user_message_id |-> user_message_id,
     sent_message_id |-> sent_message_id]

add_status(component, status, type, message, details) ==
    [call |-> "add_status", component |-> component, status |-> status,
     type |-> type, message |-> message, details |-> details]

treq_get(url, params, timeout) ==
    [call |-> "treq.get", url |-> url, params |-> params, timeout |-> timeout]

\* send_message(message): the vendor call.
send_message(message) ==
    treq_get(config.outbound_url, get_send_params(message).value,
             config.outbound_request_timeout)

-----------------------------------------------------------------------------
(* Inputs *)

\* The configurations: the timeout is a number of seconds, or null.
Configs ==
    [outbound_url : {"http://vas2nets.example/send"},
     username : {"root"}, password : {"toor"},
     outbound_request_timeout : {None, Some(30)}]

MessageIds == {"msg-1", "msg-2"}

\* transport_metadata of an outbound message: every level of the path
\* transport_metadata.vas2nets_sms.msgid absent, null or present.
TransportMetadata ==
    { None,
      Some(EmptyDict),
      Some([vas2nets_sms |-> None]),
      Some([vas2nets_sms |-> Some(EmptyDict)]),
      Some([vas2nets_sms |-> Some([msgid |-> None])]),
      Some([vas2nets_sms |-> Some([msgid |-> Some("mo-7")])]) }

\* The outbound messages the bus delivers.
OutboundMessages ==
    [message_id : MessageIds,
     from_addr : {None, Some(""), Some("9292")},
     to_addr : {None, Some(""), Some("+2348111111111")},
     content : {None, Some(""), Some("hello")},
     transport_metadata : TransportMetadata]

\* What treq.get can fail with: the three failures of a cancelled call, and
\* failures of the connection that are none of them.
CancelErrors == {"ResponseNeverReceived", "ConnectingCancelledError", "CancelledError"}
OtherErrors == {"ConnectionRefusedError", "ResponseFailed"}

ResponseCodes == {OK, 404, 500}

B_OK == <<"O","K">>
B_ERR41 == <<"E","R","R","-","4","1"," ","I","n","s","u","f","f","i","c","i","e","n","t"," ","c","r","e","d","i","t">>
B_ERR99 == <<"E","R","R","-","9","9"," ","W","e","i","r","d">>
B_ERR52 == <<"E","R","R","-","5","2"," ","x">>
B_Empty == <<>>
B_NoSpace == <<"E","R","R","-","4","1">>
B_NoDigits == <<"E","R","R","-"," ","x">>
B_EmptyMsg == <<"E","R","R","-","1","1"," ">>
B_TrailNL == <<"E","R","R","-","3","3"," ","x","\n">>
B_MidNL == <<"E","R","R","-","7","0"," ","x","\n","y">>
B_Lead == <<" ","E","R","R","-","4","1"," ","x">>

\* The response bodies the vendor sends.
ResponseBodies ==
    {B_OK, B_ERR41, B_ERR99, B_ERR52, B_Empty, B_NoSpace, B_NoDigits,
     B_EmptyMsg, B_TrailNL, B_MidNL, B_Lead}

-----------------------------------------------------------------------------
(* Outbound pipeline: handle_outbound_message *)

\* A unit before handle_outbound_message is called.
IdleOutbound ==
    [pc |-> "idle", message |-> None, silent |-> FALSE, exc |-> None,
     resp |-> None, content |-> None, status |-> None, log |-> <<>>]

\* The unit o at position pc, the calls appended to its log.
OutStep(o, pc, calls) ==
    [outbound[o] EXCEPT !.pc = pc, !.log = @ \o calls]

\* Lines 202-211: the call, up to the first yield.
handle_outbound_message(o, message) ==
    /\ outbound[o].pc = "idle"
    /\ LET missing_fields == ensure_message_values(message, EXPECTED_MESSAGE_FIELDS)
           u == [outbound[o] EXCEPT !.message = Some(message)]
       IN  IF missing_fields # {}
           THEN outbound' = [outbound EXCEPT ![o] =
                    [u EXCEPT !.pc = "reject_message",
                              !.log = Append(@, reject_message(message, missing_fields))]]
           ELSE IF get_send_params(message).raised
           THEN outbound' = [outbound EXCEPT ![o] =
                    [u EXCEPT !.pc = "raised", !.exc = Some("AttributeError")]]
           ELSE outbound' = [outbound EXCEPT ![o] =
                    [u EXCEPT !.pc = "send_message",
                              !.log = Append(@, send_message(message))]]
    /\ UNCHANGED <<config, inbound>>

\* Lines 207-208: reject_message is done; return.
reject_message_done(o) ==
    /\ outbound[o].pc = "reject_message"
    /\ outbound' = [outbound EXCEPT ![o] = OutStep(o, "done", <<>>)]
    /\ UNCHANGED <<config, inbound>>

\* handle_send_timeout taking the identifier from an attribute of the
\* transport that every unit overwrites: it holds the message of the
\* highest-numbered unit in flight.
handle_send_timeout_nack_m(message) ==
    LET busy == {o \in OutUnits : outbound[o].message # None}
        last == CHOOSE o \in busy : \A p \in busy : p <= o
        id   == outbound[last].message[1].message_id
    IN  publish_nack(id, id, T_RequestTimeout)

\* handle_send_timeout, lines 227-230.
handle_send_timeout_nack(message) ==
    publish_nack(message.message_id, message.message_id, T_RequestTimeout)

\* handle_send_timeout, lines 232-236.
handle_send_timeout_status ==
    add_status("outbound", "down", "request_timeout", T_RequestTimeout, None)

\* The except clause without ConnectingCancelledError.
IsSendTimeout_m(exc) == exc \in {"ResponseNeverReceived", "CancelledError"}

\* The except clause of lines 212-213.
IsSendTimeout(exc) ==
    exc \in {"ResponseNeverReceived", "ConnectingCancelledError", "CancelledError"}

\* The vendor never answers this call: from now on only the call's own
\* timeout, if one is configured, ends it.
vendor_never_responds(o) ==
    /\ outbound[o].pc = "send_message"
    /\ ~outbound[o].silent
    /\ outbound' = [outbound EXCEPT ![o] = [outbound[o] EXCEPT !.silent = TRUE]]
    /\ UNCHANGED <<config, inbound>>

\* Lines 212-215: the yield of line 211 raises exc.
SendRaised(o, exc) ==
    LET u == [outbound[o] EXCEPT !.exc = Some(exc)]
    IN  IF IsSendTimeout(exc)
        THEN outbound' = [outbound EXCEPT ![o] =
                 [u EXCEPT !.pc = "timeout_nack",
                           !.log = Append(@, handle_send_timeout_nack(u.message[1]))]]
        ELSE outbound' = [outbound EXCEPT ![o] = [u EXCEPT !.pc = "raised"]]

\* send_message_failed retrying the call once after a failure.
send_message_failed_m(o, exc) ==
    /\ outbound[o].pc = "send_message"
    /\ ~outbound[o].silent
    /\ IF Len(outbound[o].log) = 1
       THEN outbound' = [outbound EXCEPT ![o] =
                [outbound[o] EXCEPT !.log = Append(@, send_message(outbound[o].message[1]))]]
       ELSE SendRaised(o, exc)
    /\ UNCHANGED <<config, inbound>>

\* Lines 211-215: send_message failed with exc.
send_message_failed(o, exc) ==
    /\ outbound[o].pc = "send_message"
    /\ ~outbound[o].silent
    /\ SendRaised(o, exc)
    /\ UNCHANGED <<config, inbound>>

\* send_message_timed_out for a call whose timeout only runs while the
\* vendor is still answering.
send_message_timed_out_m(o, exc) ==
    /\ outbound[o].pc = "send_message"
    /\ ~outbound[o].silent
    /\ config.outbound_request_timeout # None
    /\ SendRaised(o, exc)
    /\ UNCHANGED <<config, inbound>>

\* Lines 140, 211-215: the timeout given to treq.get expired before a
\* response; treq cancels the call, which fails with exc.
send_message_timed_out(o, exc) ==
    /\ outbound[o].pc = "send_message"
    /\ config.outbound_request_timeout # None
    /\ SendRaised(o, exc)
    /\ UNCHANGED <<config, inbound>>

\* Lines 211, 217: send_message gave a response; its body is asked for.
send_message_responded(o, code) ==
    /\ outbound[o].pc = "send_message"
    /\ ~outbound[o].silent
    /\ outbound' = [outbound EXCEPT ![o] =
            [outbound[o] EXCEPT !.pc = "resp_content", !.resp = Some([code |-> code])]]
    /\ UNCHANGED <<config, inbound>>

\* Line 217: reading the body failed; nothing catches it.
resp_content_failed(o, exc) ==
    /\ outbound[o].pc = "resp_content"
    /\ outbound' = [outbound EXCEPT ![o] =
            [outbound[o] EXCEPT !.pc = "raised", !.exc = Some(exc)]]
    /\ UNCHANGED <<config, inbound>>

\* The test of line 220 without the HTTP status.
IsSendSuccess_m(code, status) == status.code = None

\* The test of line 220.
IsSendSuccess(code, status) == code = OK /\ status.code = None

\* handle_outbound_success acknowledging with an identifier of the vendor's
\* as sent_message_id.
handle_outbound_success_ack_m(message) ==
    publish_ack(message.message_id, "vendor-id")

\* handle_outbound_success, lines 240-242.
handle_outbound_success_ack(message) ==
    publish_ack(message.message_id, message.message_id)

\* handle_outbound_success, lines 244-248.
handle_outbound_success_status ==
    add_status("outbound", "ok", "request_success", T_RequestSuccessful, None)

\* handle_outbound_fail emitting its status event where the nack belongs.
handle_outbound_fail_nack_m(message, status) ==
    add_status("outbound", "down", get_send_fail_type(status.code), status.message, None)

\* handle_outbound_fail, lines 252-255.
handle_outbound_fail_nack(message, status) ==
    publish_nack(message.message_id, message.message_id, status.message)

\* handle_outbound_fail with the fallback type for every code.
handle_outbound_fail_status_m(status) ==
    add_status("outbound", "down", "request_fail_unknown", status.message, None)

\* handle_outbound_fail, lines 257-261.
handle_outbound_fail_status(status) ==
    add_status("outbound", "down", get_send_fail_type(status.code),
               status.message, None)

\* Lines 217-223: the body is read and classified.
resp_content_done(o, content) ==
    /\ outbound[o].pc = "resp_content"
    /\ LET status == get_send_status(content)
           u == [outbound[o] EXCEPT !.content = Some(content), !.status = Some(status)]
       IN  IF IsSendSuccess(u.resp[1].code, status)
           THEN outbound' = [outbound EXCEPT ![o] =
                    [u EXCEPT !.pc = "success_ack",
                              !.log = Append(@, handle_outbound_success_ack(u.message[1]))]]
           ELSE outbound' = [outbound EXCEPT ![o] =
                    [u EXCEPT !.pc = "fail_nack",
                              !.log = Append(@, handle_outbound_fail_nack(u.message[1], status))]]
    /\ UNCHANGED <<config, inbound>>

\* Lines 227-232, 240-244, 252-257: the ack or nack is published; add_status.
publish_done(o) ==
    /\ outbound[o].pc \in {"timeout_nack", "success_ack", "fail_nack"}
    /\ outbound' = [outbound EXCEPT ![o] =
            CASE outbound[o].pc = "timeout_nack" ->
                    OutStep(o, "timeout_status", <<handle_send_timeout_status>>)
              [] outbound[o].pc = "success_ack" ->
                    OutStep(o, "success_status", <<handle_outbound_success_status>>)
              [] outbound[o].pc = "fail_nack" ->
                    OutStep(o, "fail_status",
                            <<handle_outbound_fail_status(outbound[o].status[1])>>)]
    /\ UNCHANGED <<config, inbound>>

\* Lines 232-236, 244-248, 257-261: add_status is done; the handler returns.
outbound_status_done(o) ==
    /\ outbound[o].pc \in {"timeout_status", "success_status", "fail_status"}
    /\ outbound' = [outbound EXCEPT ![o] = OutStep(o, "done", <<>>)]
    /\ UNCHANGED <<config, inbound>>

\* The unit is over (it returned, or its exception left the handler): the
\* core keeps nothing of it.
outbound_unit_over(o) ==
    /\ outbound[o].pc \in {"done", "raised"}
    /\ outbound' = [outbound EXCEPT ![o] = IdleOutbound]
    /\ UNCHANGED <<config, inbound>>

-----------------------------------------------------------------------------
(* Inbound pipeline: handle_raw_inbound_message *)

CorrelationIds == {"req-1", "req-2"}

\* The raw value of request field f: bytes that are UTF-8 text, or are not.
Raw(f, utf8) == [raw |-> f, utf8 |-> utf8]

\* bytes.decode('utf-8') of bytes that are UTF-8 text.
decode(b) == [text |-> b.raw]

\* request.args: each expected field absent, decodable or undecodable.
RequestArgs ==
    {[f \in EXPECTED_FIELDS |->
        CASE absent[f] = 0 -> None
          [] absent[f] = 1 -> Some(Raw(f, TRUE))
          [] OTHER -> Some(Raw(f, FALSE))] : absent \in [EXPECTED_FIELDS -> {0, 1, 2}]}

\* The requests the HTTP server hands over: the uri holds the query string.
InboundRequests ==
    {[uri |-> <<"/api/v1/vas2nets/sms/", args>>, method |-> "GET",
      path |-> "/api/v1/vas2nets/sms/", content |-> "", headers |-> EmptyDict,
      args |-> args] : args \in RequestArgs}

\* HttpRpcTransport.get_field_values(request, expected_fields): the decoded
\* values of the expected fields of the request and the names of those it
\* lacks; decoding a value that is no UTF-8 text raises UnicodeDecodeError.
get_field_values(request, expected_fields) ==
    LET present == {f \in expected_fields : request.args[f] # None}
    IN  IF \E f \in present : ~request.args[f][1].utf8
        THEN [raised |-> TRUE, vals |-> EmptyDict, errors |-> {}]
        ELSE [raised |-> FALSE,
              vals |-> [f \in present |-> decode(request.args[f][1])],
              errors |-> expected_fields \ present]

\* get_request_dict(request)
get_request_dict(request) ==
    [uri |-> request.uri, method |-> request.method, path |-> request.path,
     content |-> request.content, headers |-> request.headers]

\* get_message_dict with sender and receiver exchanged.
get_message_dict_m(message_id, vals) ==
    [message_id |-> message_id,
     from_addr |-> vals["receiver"],
     from_addr_type |-> "msisdn",
     to_addr |-> vals["sender"],
     content |-> vals["msgdata"],
     provider |-> vals["operator"],
     transport_type |-> transport_type,
     transport_metadata |-> [vas2nets_sms |-> [msgid |-> vals["msgid"]]]]

\* get_message_dict(message_id, vals)
get_message_dict(message_id, vals) ==
    [message_id |-> message_id,
     from_addr |-> vals["sender"],
     from_addr_type |-> "msisdn",
     to_addr |-> vals["receiver"],
     content |-> vals["msgdata"],
     provider |-> vals["operator"],
     transport_type |-> transport_type,
     transport_metadata |-> [vas2nets_sms |-> [msgid |-> vals["msgid"]]]]

publish_message(kwargs) == [call |-> "publish_message", kwargs |-> kwargs]

finish_request(message_id, data, code) ==
    [call |-> "finish_request", message_id |-> message_id, data |-> data,
     code |-> code]

\* respond(message_id, code, body=None): body is Some(value) or None.
respond(message_id, code, body) ==
    finish_request(message_id,
                   json_dumps(IF body = None THEN EmptyDict ELSE body[1]), code)

\* handle_decode_error reporting the type of handle_bad_request_fields.
handle_decode_error_m(message_id, request) ==
    LET req == get_request_dict(request)
    IN  << respond(message_id, BAD_REQUEST, Some([invalid_request |-> req])),
           add_status("inbound", "down", "request_bad_fields",
                      T_BadRequestEncoding, Some([request |-> req])) >>

\* handle_decode_error: the calls it makes up to its yield.
handle_decode_error(message_id, request) ==
    LET req == get_request_dict(request)
    IN  << respond(message_id, BAD_REQUEST, Some([invalid_request |-> req])),
           add_status("inbound", "down", "request_decode_error",
                      T_BadRequestEncoding, Some([request |-> req])) >>

\* handle_bad_request_fields with the errors left out of the details.
handle_bad_request_fields_m(message_id, request, errors) ==
    LET req == get_request_dict(request)
    IN  << respond(message_id, BAD_REQUEST, Some(errors)),
           add_status("inbound", "down", "request_bad_fields",
                      T_BadRequestFields,
                      Some([request |-> req])) >>

\* handle_bad_request_fields: the calls it makes up to its yield.
handle_bad_request_fields(message_id, request, errors) ==
    LET req == get_request_dict(request)
    IN  << respond(message_id, BAD_REQUEST, Some(errors)),
           add_status("inbound", "down", "request_bad_fields",
                      T_BadRequestFields,
                      Some([request |-> req, errors |-> errors])) >>

\* handle_inbound_message, line 190: the call up to its first yield.
handle_inbound_message_publish(message_id, vals) ==
    << publish_message(get_message_dict(message_id, vals)) >>

\* handle_inbound_message with add_status before respond.
handle_inbound_message_respond_m(message_id) ==
    << add_status("inbound", "ok", "request_success", T_RequestSuccessful, None),
       respond(message_id, OK, Some(EmptyDict)) >>

\* handle_inbound_message without the call of respond.
handle_inbound_message_no_respond(message_id) ==
    << add_status("inbound", "ok", "request_success", T_RequestSuccessful, None) >>

\* handle_inbound_message, lines 193-199: from the first yield to the second.
handle_inbound_message_respond(message_id) ==
    << respond(message_id, OK, Some(EmptyDict)),
       add_status("inbound", "ok", "request_success", T_RequestSuccessful, None) >>

\* A unit before handle_raw_inbound_message is called.
IdleInbound ==
    [pc |-> "idle", message_id |-> None, request |-> None, log |-> <<>>]

\* Lines 143-153: the call, up to the first yield.
handle_raw_inbound_message(i, message_id, request) ==
    /\ inbound[i].pc = "idle"
    /\ LET r == get_field_values(request, EXPECTED_FIELDS)
           u == [inbound[i] EXCEPT !.message_id = Some(message_id),
                                   !.request = Some(request)]
       IN  IF r.raised
           THEN inbound' = [inbound EXCEPT ![i] =
                    [u EXCEPT !.pc = "decode_error_status",
                              !.log = @ \o handle_decode_error(message_id, request)]]
           ELSE IF r.errors # {}
           THEN inbound' = [inbound EXCEPT ![i] =
                    [u EXCEPT !.pc = "bad_fields_status",
                              !.log = @ \o handle_bad_request_fields(message_id, request, r.errors)]]
           ELSE inbound' = [inbound EXCEPT ![i] =
                    [u EXCEPT !.pc = "publish_message",
                              !.log = @ \o handle_inbound_message_publish(message_id, r.vals)]]
    /\ UNCHANGED <<config, outbound>>

\* Lines 190-195: the bus message is published; respond and add_status.
publish_message_done(i) ==
    /\ inbound[i].pc = "publish_message"
    /\ inbound' = [inbound EXCEPT ![i] =
            [inbound[i] EXCEPT !.pc = "success_status",
                 !.log = @ \o handle_inbound_message_respond(inbound[i].message_id[1])]]
    /\ UNCHANGED <<config, outbound>>

\* Lines 161, 178, 195: add_status is done; the handler returns.
inbound_status_done(i) ==
    /\ inbound[i].pc \in {"decode_error_status", "bad_fields_status", "success_status"}
    /\ inbound' = [inbound EXCEPT ![i] = [inbound[i] EXCEPT !.pc = "done"]]
    /\ UNCHANGED <<config, outbound>>

\* The unit is over: the core keeps nothing of it.
inbound_unit_over(i) ==
    /\ inbound[i].pc = "done"
    /\ inbound' = [inbound EXCEPT ![i] = IdleInbound]
    /\ UNCHANGED <<config, outbound>>

-----------------------------------------------------------------------------
(* Specification *)

\* No unit is in flight.
Quiescent ==
    /\ \A o \in OutUnits : outbound[o].pc = "idle"
    /\ \A i \in InUnits : inbound[i].pc = "idle"

Init ==
    /\ config \in Configs
    /\ outbound = [o \in OutUnits |-> IdleOutbound]
    /\ inbound = [i \in InUnits |-> IdleInbound]

\* One unit at a time: the bus delivers a message when no unit is in flight.
Next ==
    \/ Quiescent /\ \E o \in OutUnits, message \in OutboundMessages :
          handle_outbound_message(o, message)
    \/ \E o \in OutUnits : reject_message_done(o)
    \/ \E o \in OutUnits : vendor_never_responds(o)
    \/ \E o \in OutUnits, exc \in CancelErrors \cup OtherErrors : send_message_failed(o, exc)
    \/ \E o \in OutUnits, exc \in CancelErrors : send_message_timed_out(o, exc)
    \/ \E o \in OutUnits, code \in ResponseCodes : send_message_responded(o, code)
    \/ \E o \in OutUnits, exc \in OtherErrors : resp_content_failed(o, exc)
    \/ \E o \in OutUnits, content \in ResponseBodies : resp_content_done(o, content)
    \/ \E o \in OutUnits : publish_done(o)
    \/ \E o \in OutUnits : outbound_status_done(o)
    \/ \E o \in OutUnits : outbound_unit_over(o)
    \/ Quiescent /\ \E i \in InUnits, message_id \in CorrelationIds, request \in InboundRequests :
          handle_raw_inbound_message(i, message_id, request)
    \/ \E i \in InUnits : publish_message_done(i)
    \/ \E i \in InUnits : inbound_status_done(i)
    \/ \E i \in InUnits : inbound_unit_over(i)

Spec == Init /\ [][Next]_vars

-----------------------------------------------------------------------------
(* Specification of the vendor's answers: one unit at a time, messages     *)
(* with all required fields, and a wide set of response bodies.            *)

\* The outbound messages with all required fields and no metadata.
SendableMessages ==
    [message_id : MessageIds, from_addr : {Some("9292")},
     to_addr : {Some("+2348111111111")}, content : {Some("hello")},
     transport_metadata : {Some(EmptyDict)}]

\* Response bodies: those of ResponseBodies, and an error report for each
\* code of one, two and three digits (of the last, one).
VendorBodies ==
    ResponseBodies
      \cup {<<"E","R","R","-",a,b," ","x">> : a \in Digits, b \in Digits}
      \cup {<<"E","R","R","-",a," ","x">> : a \in Digits}
      \cup {<<"E","R","R","-","4","1","1"," ","x">>}

NextVendor ==
    \/ Quiescent /\ \E o \in OutUnits, message \in SendableMessages :
          handle_outbound_message(o, message)
    \/ \E o \in OutUnits, code \in ResponseCodes : send_message_responded(o, code)
    \/ \E o \in OutUnits, content \in VendorBodies : resp_content_done(o, content)
    \/ \E o \in OutUnits : publish_done(o)
    \/ \E o \in OutUnits : outbound_status_done(o)
    \/ \E o \in OutUnits : outbound_unit_over(o)

SpecVendor == Init /\ [][NextVendor]_vars

-----------------------------------------------------------------------------
(* Specification of concurrent units: the reactor runs a unit up to its    *)
(* next yield and then any unit that is ready, so units interleave at      *)
(* their yields.  At most MaxUnits units are in flight at once.            *)

InFlight ==
    Cardinality({o \in OutUnits : outbound[o].pc # "idle"})
      + Cardinality({i \in InUnits : inbound[i].pc # "idle"})

\* Outbound messages with and without a receiver.
ConcMessages ==
    [message_id : MessageIds, from_addr : {Some("9292")},
     to_addr : {None, Some("+2348111111111")}, content : {Some("hello")},
     transport_metadata : {Some(EmptyDict)}]

\* Inbound requests with all six fields, and without msgid.
ConcRequests ==
    {r \in InboundRequests :
        /\ \A f \in EXPECTED_FIELDS \ {"msgid"} : r.args[f] = Some(Raw(f, TRUE))
        /\ r.args["msgid"] \in {None, Some(Raw("msgid", TRUE))}}

NextConc ==
    \/ InFlight < MaxUnits /\ \E o \in OutUnits, message \in ConcMessages :
          handle_outbound_message(o, message)
    \/ \E o \in OutUnits : reject_message_done(o)
    \/ \E o \in OutUnits : send_message_failed(o, "CancelledError")
    \/ \E o \in OutUnits, code \in {OK, 500} : send_message_responded(o, code)
    \/ \E o \in OutUnits, content \in {B_OK, B_ERR41} : resp_content_done(o, content)
    \/ \E o \in OutUnits : publish_done(o)
    \/ \E o \in OutUnits : outbound_status_done(o)
    \/ \E o \in OutUnits : outbound_unit_over(o)
    \/ InFlight < MaxUnits /\
          \E i \in InUnits, message_id \in CorrelationIds, request \in ConcRequests :
              handle_raw_inbound_message(i, message_id, request)
    \/ \E i \in InUnits : publish_message_done(i)
    \/ \E i \in InUnits : inbound_status_done(i)
    \/ \E i \in InUnits : inbound_unit_over(i)

SpecConc == Init /\ [][NextConc]_vars

-----------------------------------------------------------------------------
(* Specification of the progress of outbound units: concurrent units, a    *)
(* vendor whose answers can be read, and collaborators that complete.      *)

\* Outbound messages of one ID with and without a receiver.
LiveMessages == {message \in ConcMessages : message.message_id = "msg-1"}

\* The vendor call of unit o resolves: a response, a cancellation, or the
\* expiry of the configured timeout.
send_message_resolves(o) ==
    \/ send_message_responded(o, OK)
    \/ \E exc \in CancelErrors : send_message_failed(o, exc)
    \/ \E exc \in CancelErrors : send_message_timed_out(o, exc)

NextLive ==
    \/ \E o \in OutUnits, message \in LiveMessages : handle_outbound_message(o, message)
    \/ \E o \in OutUnits : reject_message_done(o)
    \/ \E o \in OutUnits : vendor_never_responds(o)
    \/ \E o \in OutUnits : send_message_resolves(o)
    \/ \E o \in OutUnits, content \in {B_OK, B_ERR41} : resp_content_done(o, content)
    \/ \E o \in OutUnits : publish_done(o)
    \/ \E o \in OutUnits : outbound_status_done(o)
    \/ \E o \in OutUnits : outbound_unit_over(o)

\* The reactor resumes every unit whose awaited call has completed; the
\* bus collaborators complete; the vendor call resolves unless the vendor
\* never responds and no timeout is configured.
Fairness ==
    \A o \in OutUnits :
        /\ WF_vars(reject_message_done(o))
        /\ WF_vars(send_message_resolves(o))
        /\ WF_vars(\E content \in {B_OK, B_ERR41} : resp_content_done(o, content))
        /\ WF_vars(publish_done(o))
        /\ WF_vars(outbound_status_done(o))

SpecLive == Init /\ [][NextLive]_vars /\ Fairness

-----------------------------------------------------------------------------
(* Properties *)

\* The calls of a log to the collaborator method called name.
Calls(log, name) == SelectSeq(log, LAMBDA e : e.call = name)

\* The health-status events of a log, as (component, status, type).
StatusTags(log) ==
    LET st == Calls(log, "add_status")
    IN  [k \in 1..Len(st) |-> <<st[k].component, st[k].status, st[k].type>>]

\* The outbound units that received a vendor response and read its body.
Classified == {o \in OutUnits : outbound[o].content # None}

\* The response of unit o counts as a success.
SuccessfulResponse(o) ==
    outbound[o].resp[1].code = 200 /\ outbound[o].status[1].code = None

\* C1: once a vendor response and its body are received, the unit has
\* published exactly one acknowledgement carrying its own message ID twice
\* and no nack, followed by the status (outbound, ok, request_success), if
\* and only if the HTTP status is 200 and the classified code is null;
\* otherwise it has published exactly one nack and no acknowledgement.
C1_AckIffSuccess ==
    \A o \in Classified :
        LET u == outbound[o]
            id == u.message[1].message_id
            acks == Calls(u.log, "publish_ack")
            nacks == Calls(u.log, "publish_nack")
        IN  /\ SuccessfulResponse(o) =>
                /\ acks = << [call |-> "publish_ack", user_message_id |-> id,
                              sent_message_id |-> id] >>
                /\ nacks = <<>>
                /\ u.pc \in {"success_ack", "success_status", "done"}
                /\ u.pc # "success_ack" =>
                       StatusTags(u.log) = << <<"outbound", "ok", "request_success">> >>
            /\ ~SuccessfulResponse(o) =>
                /\ acks = <<>>
                /\ Len(nacks) = 1
                /\ \A k \in 1..Len(StatusTags(u.log)) : StatusTags(u.log)[k][2] # "ok"

C1_Witness ==
    \E o \in Classified :
        /\ outbound[o].pc = "done"
        /\ SuccessfulResponse(o)
        /\ outbound[o].content = Some(B_OK)
        /\ Len(Calls(outbound[o].log, "publish_ack")) = 1

T_InsufficientCredit == <<"I","n","s","u","f","f","i","c","i","e","n","t"," ","c","r","e","d","i","t">>

\* C2: on a failed response the nack's reason is the classified message
\* text and the status event is (outbound, down) with the type the table
\* gives for the extracted code and the classified text as its message;
\* the body "ERR-41 Insufficient credit" with status 200 gives the reason
\* "Insufficient credit" and the type insufficient_credit.
C2_FailureReasonAndType ==
    \A o \in Classified :
        LET u == outbound[o]
            id == u.message[1].message_id
            st == Calls(u.log, "add_status")
        IN  ~SuccessfulResponse(o) =>
                /\ Calls(u.log, "publish_nack") =
                       << [call |-> "publish_nack", user_message_id |-> id,
                           sent_message_id |-> id, reason |-> u.status[1].message] >>
                /\ u.pc \in {"fail_nack", "fail_status", "done"}
                /\ u.pc # "fail_nack" =>
                       /\ Len(st) = 1
                       /\ st[1].component = "outbound" /\ st[1].status = "down"
                       /\ st[1].type = get_send_fail_type(u.status[1].code)
                       /\ st[1].message = u.status[1].message
                /\ (u.pc = "done" /\ u.content = Some(B_ERR41)) =>
                       /\ Calls(u.log, "publish_nack")[1].reason = T_InsufficientCredit
                       /\ st[1].type = "insufficient_credit"
                       /\ st[1].message = T_InsufficientCredit

C2_Witness ==
    \E o \in Classified :
        /\ outbound[o].pc = "done"
        /\ outbound[o].resp[1].code = 200
        /\ outbound[o].content = Some(B_ERR41)
        /\ Len(Calls(outbound[o].log, "publish_nack")) = 1

\* The outbound units whose vendor call failed with one of the three
\* failures of a call cancelled before a response.
Cancelled ==
    {o \in OutUnits : outbound[o].resp = None /\ outbound[o].exc \in
        {Some("ResponseNeverReceived"), Some("ConnectingCancelledError"),
         Some("CancelledError")}}

\* C3: whichever of the three cancellation failures ended the vendor call,
\* the unit publishes one nack with its own message ID twice and the reason
\* "Request timeout", then the status (outbound, down, request_timeout),
\* and never an acknowledgement; the failure does not leave the handler.
C3_CancelledIsTimeout ==
    \A o \in Cancelled :
        LET u == outbound[o]
            id == u.message[1].message_id
        IN  /\ Calls(u.log, "publish_nack") =
                   << [call |-> "publish_nack", user_message_id |-> id,
                       sent_message_id |-> id, reason |-> T_RequestTimeout] >>
            /\ Calls(u.log, "publish_ack") = <<>>
            /\ u.pc \in {"timeout_nack", "timeout_status", "done"}
            /\ u.pc # "timeout_nack" =>
                   StatusTags(u.log) = << <<"outbound", "down", "request_timeout">> >>

C3_Witness ==
    \E o \in Cancelled :
        /\ outbound[o].pc = "done"
        /\ outbound[o].exc = Some("ConnectingCancelledError")
        /\ Len(outbound[o].log) = 3

\* The fields among from_addr, to_addr and content that message m lacks
\* (null or empty).
MissingOf(m) ==
    {f \in {"from_addr", "to_addr", "content"} : m[f] = None \/ m[f] = Some("")}

\* C4: a message lacking any of from_addr, to_addr, content is rejected
\* with exactly the set of its missing fields; that rejection is the only
\* call the unit ever makes (no vendor call), and the unit then returns.
C4_MissingFieldsRejected ==
    \A o \in OutUnits :
        LET u == outbound[o]
        IN  (u.message # None /\ MissingOf(u.message[1]) # {}) =>
                /\ u.log = << [call |-> "reject_message", message |-> u.message[1],
                               missing_fields |-> MissingOf(u.message[1])] >>
                /\ u.pc \in {"reject_message", "done"}

C4_Witness ==
    \E o \in OutUnits :
        /\ outbound[o].pc = "done"
        /\ outbound[o].message # None
        /\ MissingOf(outbound[o].message[1]) = {"to_addr"}
        /\ Calls(outbound[o].log, "treq.get") = <<>>

\* C5 (as claimed): every unit of either pipeline that has returned has
\* emitted exactly one health-status event.
C5_ExactlyOneStatus ==
    /\ \A o \in OutUnits :
           outbound[o].pc = "done" => Len(Calls(outbound[o].log, "add_status")) = 1
    /\ \A i \in InUnits :
           inbound[i].pc = "done" => Len(Calls(inbound[i].log, "add_status")) = 1

\* C6 (as claimed): a vendor call that failed, or whose body could not be
\* read, never leaves the handler as an exception, and the unit that
\* returned after it has published a nack and a status "down".
C6_SendErrorsRecovered ==
    \A o \in OutUnits :
        LET u == outbound[o]
        IN  (u.exc # None /\ u.exc # Some("AttributeError")) =>
                /\ u.pc # "raised"
                /\ u.pc = "done" =>
                       /\ Len(Calls(u.log, "publish_nack")) = 1
                       /\ \E k \in 1..Len(StatusTags(u.log)) :
                              StatusTags(u.log)[k][2] = "down"

\* The prior vendor message ID of message m: Some(id) when every level of
\* transport_metadata.vas2nets_sms.msgid is present and not null.
PriorMsgId(m) ==
    IF /\ m.transport_metadata # None
       /\ "vas2nets_sms" \in DOMAIN m.transport_metadata[1]
       /\ m.transport_metadata[1].vas2nets_sms # None
       /\ "msgid" \in DOMAIN m.transport_metadata[1].vas2nets_sms[1]
    THEN m.transport_metadata[1].vas2nets_sms[1].msgid
    ELSE None

\* C7: a message with its required fields makes one vendor call, first of
\* all its calls, whose parameters are username, password, sender =
\* from_addr, receiver = to_addr, message = content and, exactly when the
\* message carries a prior vendor message ID, message_id = that ID; an
\* absent level of the metadata path never makes the lookup fail.
C7_SendParams ==
    \A o \in OutUnits :
        LET u == outbound[o]
            m == u.message[1]
        IN  (u.message # None /\ MissingOf(m) = {}) =>
                /\ u.exc # Some("AttributeError")
                /\ Len(u.log) >= 1
                /\ Len(Calls(u.log, "treq.get")) = 1
                /\ u.log[1].call = "treq.get"
                /\ LET params == u.log[1].params
                   IN  /\ DOMAIN params =
                              {"username", "password", "sender", "receiver", "message"}
                                \cup (IF PriorMsgId(m) # None THEN {"message_id"} ELSE {})
                       /\ params.username = config.username
                       /\ params.password = config.password
                       /\ params.sender = m.from_addr
                       /\ params.receiver = m.to_addr
                       /\ params.message = m.content
                       /\ PriorMsgId(m) # None => params.message_id = PriorMsgId(m)[1]

C7_Witness ==
    \E o \in OutUnits :
        /\ outbound[o].pc = "send_message"
        /\ PriorMsgId(outbound[o].message[1]) = Some("mo-7")
        /\ outbound[o].log[1].params.message_id = "mo-7"

\* The expected fields request r lacks, and whether those it has decode.
MissingIn(r) ==
    {f \in {"sender", "receiver", "msgdata", "recvtime", "msgid", "operator"} :
        r.args[f] = None}

Decodable(r) == \A f \in DOMAIN r.args : r.args[f] = None \/ r.args[f][1].utf8

\* What the claims on bad fields say of inbound unit i.
BadFieldsOutcome(i) ==
    LET u == inbound[i]
        r == u.request[1]
    IN  /\ u.pc \in {"bad_fields_status", "done"}
        /\ Len(u.log) = 2
        /\ u.log[1] = [call |-> "finish_request", message_id |-> u.message_id[1],
                       data |-> json_dumps(MissingIn(r)), code |-> 400]
        /\ StatusTags(u.log) = << <<"inbound", "down", "request_bad_fields">> >>
        /\ u.log[2].details =
               Some([request |-> [uri |-> r.uri, method |-> r.method, path |-> r.path,
                                  content |-> r.content, headers |-> r.headers],
                     errors |-> MissingIn(r)])

\* C8 (as claimed): every inbound request lacking an expected field is
\* answered 400 with the error set, with the status (inbound, down,
\* request_bad_fields) whose details hold exactly the missing fields and
\* the request description.
C8_MissingFieldsBadRequest ==
    \A i \in InUnits :
        (inbound[i].request # None /\ MissingIn(inbound[i].request[1]) # {}) =>
            BadFieldsOutcome(i)

\* C8 (amended): every inbound request lacking an expected field, and
\* whose supplied fields all decode as text, is answered 400 with the error
\* set, with the status (inbound, down, request_bad_fields) whose details
\* hold exactly the missing fields and the request description.
C8_DecodableMissingFieldsBadRequest ==
    \A i \in InUnits :
        (/\ inbound[i].request # None
         /\ MissingIn(inbound[i].request[1]) # {}
         /\ Decodable(inbound[i].request[1])) =>
            BadFieldsOutcome(i)

C8_Witness ==
    \E i \in InUnits :
        /\ inbound[i].pc = "done"
        /\ MissingIn(inbound[i].request[1]) = {"msgid", "operator"}
        /\ Decodable(inbound[i].request[1])
        /\ inbound[i].log[1].code = 400

\* C9: an inbound request with all six fields present and decodable first
\* publishes a bus message with message_id = the correlation ID, from_addr
\* = sender, to_addr = receiver, content = msgdata, provider = operator and
\* transport_metadata.vas2nets_sms.msgid = msgid (each decoded), then
\* answers 200 with the empty payload and emits (inbound, ok,
\* request_success).
C9_InboundSuccess ==
    \A i \in InUnits :
        LET u == inbound[i]
            r == u.request[1]
            text(f) == [text |-> r.args[f][1].raw]
        IN  (u.request # None /\ MissingIn(r) = {} /\ Decodable(r)) =>
                /\ u.pc \in {"publish_message", "success_status", "done"}
                /\ Len(u.log) = IF u.pc = "publish_message" THEN 1 ELSE 3
                /\ u.log[1].call = "publish_message"
                /\ LET kw == u.log[1].kwargs
                   IN  /\ kw.message_id = u.message_id[1]
                       /\ kw.from_addr = text("sender")
                       /\ kw.to_addr = text("receiver")
                       /\ kw.content = text("msgdata")
                       /\ kw.provider = text("operator")
                       /\ kw.transport_metadata.vas2nets_sms.msgid = text("msgid")
                /\ u.pc # "publish_message" =>
                       /\ u.log[2] = [call |-> "finish_request",
                                      message_id |-> u.message_id[1],
                                      data |-> json_dumps(EmptyDict), code |-> 200]
                       /\ StatusTags(u.log) = << <<"inbound", "ok", "request_success">> >>
                       /\ u.log[3].call = "add_status"

C9_Witness ==
    \E i \in InUnits :
        /\ inbound[i].pc = "done"
        /\ MissingIn(inbound[i].request[1]) = {}
        /\ Decodable(inbound[i].request[1])
        /\ Len(Calls(inbound[i].log, "publish_message")) = 1

\* C10: an inbound request with a field that does not decode as text is
\* answered 400 with a payload holding the raw request description, emits
\* the status (inbound, down, request_decode_error), and publishes no bus
\* message.
C10_DecodeError ==
    \A i \in InUnits :
        LET u == inbound[i]
            r == u.request[1]
        IN  (u.request # None /\ ~Decodable(r)) =>
                /\ u.pc \in {"decode_error_status", "done"}
                /\ Len(u.log) = 2
                /\ u.log[1] = [call |-> "finish_request", message_id |-> u.message_id[1],
                               data |-> json_dumps([invalid_request |->
                                   [uri |-> r.uri, method |-> r.method, path |-> r.path,
                                    content |-> r.content, headers |-> r.headers]]),
                               code |-> 400]
                /\ StatusTags(u.log) = << <<"inbound", "down", "request_decode_error">> >>
                /\ Calls(u.log, "publish_message") = <<>>

C10_Witness ==
    \E i \in InUnits :
        /\ inbound[i].pc = "done"
        /\ ~Decodable(inbound[i].request[1])
        /\ inbound[i].log[1].code = 400
        /\ inbound[i].log[2].type = "request_decode_error"

\* The positions of the calls to name in a log.
Positions(log, name) == {k \in 1..Len(log) : log[k].call = name}

\* C11: in every inbound unit each health-status event comes after a
\* response to the HTTP caller and no response comes after a health-status
\* event; the response 200 comes after the bus message was published.
C11_InboundOrder ==
    \A i \in InUnits :
        LET log == inbound[i].log
        IN  /\ \A k \in Positions(log, "add_status") :
                   /\ \E j \in Positions(log, "finish_request") : j < k
                   /\ \A j \in Positions(log, "finish_request") : j < k
            /\ \A k \in Positions(log, "finish_request") :
                   log[k].code = 200 => \E j \in Positions(log, "publish_message") : j < k

C11_Witness ==
    \E i \in InUnits :
        /\ inbound[i].pc = "success_status"
        /\ Positions(inbound[i].log, "publish_message") = {1}
        /\ Positions(inbound[i].log, "finish_request") = {2}
        /\ Positions(inbound[i].log, "add_status") = {3}

\* The tag the fixed table gives for a vendor error code (Some(code) or
\* None), and the fallback tag for every other code.
TableTag(code) ==
    IF code = None THEN "request_fail_unknown"
    ELSE CASE code[1] = <<"E","R","R","-","1","1">> -> "missing_username"
           [] code[1] = <<"E","R","R","-","1","2">> -> "missing_password"
           [] code[1] = <<"E","R","R","-","1","3">> -> "missing_destination"
           [] code[1] = <<"E","R","R","-","1","4">> -> "missing_sender_id"
           [] code[1] = <<"E","R","R","-","1","5">> -> "missing_message"
           [] code[1] = <<"E","R","R","-","2","1">> -> "ender_id_too_long"
           [] code[1] = <<"E","R","R","-","3","3">> -> "invalid_login"
           [] code[1] = <<"E","R","R","-","4","1">> -> "insufficient_credit"
           [] code[1] = <<"E","R","R","-","7","0">> -> "invalid_destination_number"
           [] code[1] = <<"E","R","R","-","5","1">> -> "invalid_message_id"
           [] code[1] = <<"E","R","R","-","5","2">> -> "system_error"
           [] OTHER -> "request_fail_unknown"

\* C12: for every classified code of a failed response, null and codes
\* outside the table included, the failure's health-status event is
\* emitted and its type is the table's tag for a code of the table and
\* request_fail_unknown for every other code.
C12_OutcomeMapperTotal ==
    \A o \in Classified :
        LET u == outbound[o]
            st == Calls(u.log, "add_status")
        IN  (~SuccessfulResponse(o) /\ u.pc \in {"fail_status", "done"}) =>
                /\ Len(st) = 1
                /\ st[1].type = TableTag(u.status[1].code)

C12_Witness ==
    \E o \in Classified :
        /\ outbound[o].pc = "done"
        /\ outbound[o].content = Some(B_ERR99)
        /\ Calls(outbound[o].log, "add_status")[1].type = "request_fail_unknown"

\* A body is of the form ERR-<digits> <free text>: the letters ERR-, one
\* or more digits, one space, and any text after it.
ErrDigits(body) ==
    {n \in 1..Len(body) :
        /\ Len(body) >= 5 + n
        /\ SubSeq(body, 1, 4) = <<"E","R","R","-">>
        /\ \A k \in 5..(4 + n) : body[k] \in Digits
        /\ body[5 + n] = " "}

\* C13: the classification of every response body is defined; a body of
\* the form ERR-<digits> <free text> is classified with exactly that code
\* and exactly that free text as the message, and every other body with a
\* null code and the whole body as the message.
C13_ClassifierTotal ==
    \A o \in Classified :
        LET body == outbound[o].content[1]
            got  == outbound[o].status[1]
        IN  IF ErrDigits(body) # {}
            THEN LET n == CHOOSE n \in ErrDigits(body) : TRUE
                 IN  got = [code    |-> Some(SubSeq(body, 1, 4 + n)),
                            message |-> SubSeq(body, 6 + n, Len(body))]
            ELSE got = [code |-> None, message |-> body]

\* C14: over the whole life of an outbound unit at most one HTTP call to
\* the vendor is issued: a unit that has ended with a nack (after a
\* timeout, a cancelled send, a non-OK status or a vendor error code) or
\* with an ack has issued exactly one, and a rejected unit none.
C14_AtMostOneVendorCall ==
    \A o \in OutUnits :
        LET log   == outbound[o].log
            calls == Len(Calls(log, "treq.get"))
        IN  /\ calls <= 1
            /\ (Calls(log, "publish_nack") # <<>> \/ Calls(log, "publish_ack") # <<>>)
                   => calls = 1
            /\ Calls(log, "reject_message") # <<>> => calls = 0

C14_Witness ==
    \E o \in OutUnits :
        /\ outbound[o].pc = "done"
        /\ outbound[o].exc = Some("CancelledError")
        /\ Len(Calls(outbound[o].log, "publish_nack")) = 1
        /\ Len(Calls(outbound[o].log, "treq.get")) = 1

\* C16: a bus message is published for an inbound request only if all six
\* required fields are present and decode; a request on the decode-failure
\* or the bad-fields path publishes none; and every request is answered
\* with exactly one HTTP response, 200 with one published bus message or
\* 400 with none.
C16_PublishOnlyWhenComplete ==
    \A i \in InUnits :
        LET u         == inbound[i]
            r         == u.request[1]
            published == Calls(u.log, "publish_message")
            responses == Calls(u.log, "finish_request")
        IN  u.request # None =>
                /\ published # <<>> => (MissingIn(r) = {} /\ Decodable(r))
                /\ (~Decodable(r) \/ MissingIn(r) # {}) => published = <<>>
                /\ Len(responses) <= 1
                /\ u.pc \in {"decode_error_status", "bad_fields_status",
                             "success_status", "done"} => Len(responses) = 1
                /\ \A k \in 1..Len(responses) :
                       \/ responses[k].code = 200 /\ Len(published) = 1
                       \/ responses[k].code = 400 /\ Len(published) = 0

C16_Witness ==
    \E i \in InUnits :
        /\ inbound[i].pc = "done"
        /\ ~Decodable(inbound[i].request[1])
        /\ Calls(inbound[i].log, "publish_message") = <<>>
        /\ Len(Calls(inbound[i].log, "finish_request")) = 1
        /\ Calls(inbound[i].log, "finish_request")[1].code = 400

\* C17: a vendor response whose HTTP status is not OK and from whose body
\* no error code is extracted (the body "OK" included) is answered with one
\* nack whose reason is the whole response body and no ack, and then with
\* the status event (outbound, down, request_fail_unknown).
C17_NonOkWithoutCode ==
    \A o \in Classified :
        LET u  == outbound[o]
            st == Calls(u.log, "add_status")
        IN  (u.resp[1].code # 200 /\ u.status[1].code = None) =>
                /\ u.pc \in {"fail_nack", "fail_status", "done"}
                /\ Calls(u.log, "publish_ack") = <<>>
                /\ Len(Calls(u.log, "publish_nack")) = 1
                /\ Calls(u.log, "publish_nack")[1].reason = u.content[1]
                /\ u.pc # "fail_nack" =>
                       /\ Len(st) = 1
                       /\ st[1].component = "outbound"
                       /\ st[1].status = "down"
                       /\ st[1].type = "request_fail_unknown"

C17_Witness ==
    \E o \in Classified :
        /\ outbound[o].pc = "done"
        /\ outbound[o].resp[1].code = 500
        /\ outbound[o].content = Some(B_OK)
        /\ Calls(outbound[o].log, "publish_nack")[1].reason = B_OK
        /\ Calls(outbound[o].log, "add_status")[1].type = "request_fail_unknown"

\* The bus outcome events of a log: rejections, acks and nacks.
Outcomes(log) ==
    Calls(log, "reject_message") \o Calls(log, "publish_ack") \o Calls(log, "publish_nack")

\* C19: an outbound unit emits at most one bus outcome event (a rejection,
\* an ack or a nack), hence never both an ack and a nack, and in every ack
\* and nack user_message_id and sent_message_id both are the message's own
\* message_id.
C19_AtMostOneOutcome ==
    \A o \in OutUnits :
        LET u == outbound[o]
        IN  /\ Len(Outcomes(u.log)) <= 1
            /\ ~(Calls(u.log, "publish_ack") # <<>> /\ Calls(u.log, "publish_nack") # <<>>)
            /\ \A k \in 1..Len(u.log) :
                   u.log[k].call \in {"publish_ack", "publish_nack"} =>
                       /\ u.log[k].user_message_id = u.message[1].message_id
                       /\ u.log[k].sent_message_id = u.message[1].message_id

C19_Witness ==
    \E o \in OutUnits :
        /\ outbound[o].pc = "done"
        /\ outbound[o].message[1].message_id = "msg-2"
        /\ Len(Outcomes(outbound[o].log)) = 1
        /\ Calls(outbound[o].log, "publish_ack") =
               << [call |-> "publish_ack", user_message_id |-> "msg-2",
                   sent_message_id |-> "msg-2"] >>

\* C20: in an outbound unit every health-status event comes after the
\* unit's ack or nack: a status event is never in the log without an ack
\* or a nack before it, on the timeout, the success and the failure path.
C20_OutcomeBeforeStatus ==
    \A o \in OutUnits :
        LET log == outbound[o].log
        IN  \A k \in Positions(log, "add_status") :
                \E j \in Positions(log, "publish_ack") \cup Positions(log, "publish_nack") :
                    j < k

C20_Witness ==
    \E o \in OutUnits :
        LET log == outbound[o].log
        IN  /\ outbound[o].pc = "done"
            /\ outbound[o].status # None
            /\ ~SuccessfulResponse(o)
            /\ Positions(log, "publish_nack") = {2}
            /\ Positions(log, "add_status") = {3}

\* The calls an outbound unit makes in all, given its own message and its
\* own vendor result only: the failure of its call, or its response's
\* status and body.
OwnOutcome(message, exc, resp, content) ==
    LET id == message.message_id
        missing == {f \in {"from_addr", "to_addr", "content"} :
                        message[f] = None \/ message[f] = Some("")}
        status == get_send_status(content[1])
    IN  IF missing # {}
        THEN << [call |-> "reject_message", message |-> message, missing_fields |-> missing] >>
        ELSE << send_message(message) >> \o
             IF exc # None
             THEN << publish_nack(id, id, T_RequestTimeout), handle_send_timeout_status >>
             ELSE IF resp[1].code = 200 /\ status.code = None
             THEN << publish_ack(id, id), handle_outbound_success_status >>
             ELSE << publish_nack(id, id, status.message),
                     add_status("outbound", "down", TableTag(status.code),
                                status.message, None) >>

\* C15: with units in flight concurrently and interleaved at their yields,
\* the calls of each outbound unit that has ended are those its own
\* message and its own vendor result determine, whatever the other units
\* did meanwhile, and every ack, nack and rejection of a unit, ended or
\* not, carries that unit's own message ID; every response to an inbound
\* request carries that request's own ID.
C15_UnitsIndependent ==
    /\ \A o \in OutUnits :
           LET u == outbound[o]
           IN  /\ u.pc = "done" =>
                      u.log = OwnOutcome(u.message[1], u.exc, u.resp, u.content)
               /\ \A k \in 1..Len(u.log) :
                      /\ u.log[k].call \in {"publish_ack", "publish_nack"} =>
                             /\ u.log[k].user_message_id = u.message[1].message_id
                             /\ u.log[k].sent_message_id = u.message[1].message_id
                      /\ u.log[k].call = "reject_message" =>
                             u.log[k].message = u.message[1]
    /\ \A i \in InUnits :
           \A k \in Positions(inbound[i].log, "finish_request") :
               inbound[i].log[k].message_id = inbound[i].message_id[1]

\* Two outbound units with different messages in flight at once, the
\* first answered by the vendor and the second timed out.
C15_Witness ==
    /\ outbound[1].pc = "done" /\ outbound[2].pc = "done"
    /\ outbound[1].message[1].message_id = "msg-1"
    /\ outbound[2].message[1].message_id = "msg-2"
    /\ outbound[1].exc = None /\ outbound[1].content = Some(B_OK)
    /\ outbound[2].exc = Some("CancelledError")
    /\ Calls(outbound[2].log, "publish_nack")[1].user_message_id = "msg-2"

\* Unit o has ended with a rejection, an ack or a nack emitted.
Terminal(o) == outbound[o].pc = "done" /\ Outcomes(outbound[o].log) # <<>>

\* Unit o waits for a vendor that never responds, with no timeout set.
Stuck(o) ==
    /\ outbound[o].pc = "send_message"
    /\ outbound[o].silent
    /\ config.outbound_request_timeout = None

\* C18: every outbound unit in flight eventually is terminal with a
\* rejection, an ack or a nack emitted, whatever the other units do,
\* unless its vendor call never resolves; a unit whose vendor never
\* responds while the timeout is unset waits at its call forever and never
\* is terminal.
C18_IndependentlyTerminal ==
    \A o \in OutUnits :
        /\ (outbound[o].pc # "idle") ~> (Terminal(o) \/ Stuck(o))
        /\ [](Stuck(o) => [](Stuck(o) /\ ~Terminal(o)))

\* One unit waits forever while another has ended with its outcome.
C18_Witness ==
    \E o \in OutUnits, p \in OutUnits :
        /\ Stuck(o)
        /\ Terminal(p)
        /\ Calls(outbound[p].log, "publish_ack") # <<>>

=============================================================================
